---- MODULE Spec2Model ----
(***************************************************************************)
(* Futures math engine (src/src/futures_math.py).                          *)
(*                                                                         *)
(* The engine is a library of functions over Python floats.  A float is    *)
(* modelled as an exact number n/d * 10^e (a normalised fraction with a    *)
(* decimal exponent), so that 1e-12 and 365*24*3600 seconds live in the    *)
(* same type without leaving TLC's integers.  Rounding of binary floating  *)
(* point is not modelled: arithmetic is that of the reals.                 *)
(*                                                                         *)
(* The state is what a caller of the library holds: the funding_rates      *)
(* argument object (a list, or a one-shot iterator with its position), and *)
(* the record of the latest call and of the call before it.                *)
(***************************************************************************)
EXTENDS Integers, Sequences, FiniteSets, TLC

VARIABLES rates, call, prev

vars == <<rates, call, prev>>

\* Longest funding-rate series the caller builds.
MaxLen == 3

\* Largest integer exponent of ** that is evaluated as an exact fraction.
MaxExactPower == 4

----------------------------------------------------------------------------
(* Float arithmetic: exact numbers n/d * 10^e.                             *)

Abs(k) == IF k < 0 THEN -k ELSE k

RECURSIVE Gcd(_, _)
Gcd(a, b) == IF b = 0 THEN a ELSE Gcd(b, a % b)

RECURSIVE Pow10(_)
Pow10(k) == IF k = 0 THEN 1 ELSE 10 * Pow10(k - 1)

\* The number n/d * 10^e with the fraction in lowest terms and d > 0.
Norm(n, d, e) ==
    IF n = 0 THEN [n |-> 0, d |-> 1, e |-> 0]
    ELSE LET g == Gcd(Abs(n), Abs(d))
             s == IF d < 0 THEN -1 ELSE 1
         IN [n |-> (s * n) \div g, d |-> Abs(d) \div g, e |-> e]

\* The float literal k (k.0).
FromInt(k) == Norm(k, 1, 0)

\* The float literal n * 10^-digits written as a fraction (0.0005 = Dec(5, 4)).
Dec(n, digits) == Norm(n, Pow10(digits), 0)

\* The float literal n * 10^-digits kept with its exponent (1e-12 = Sci(1, 12)).
Sci(n, digits) == Norm(n, 1, -digits)

Zero == FromInt(0)
One == FromInt(1)

\* x * 10^k <= y over the integers, k >= 0, without forming x * 10^k.
RECURSIVE ShiftLeq(_, _, _)
ShiftLeq(x, k, y) == IF k = 0 THEN x <= y ELSE ShiftLeq(x, k - 1, y \div 10)

\* a <= b
RLeq(a, b) ==
    LET l == a.n * b.d
        r == b.n * a.d
        k == a.e - b.e
    IN IF k >= 0 THEN ShiftLeq(l, k, r) ELSE ~ShiftLeq(r, -k, l - 1)

RLt(a, b) == ~RLeq(b, a)

\* a == b as numbers (the representation of a number is not unique in e).
REq(a, b) == RLeq(a, b) /\ RLeq(b, a)

RNeg(a) == Norm(-a.n, a.d, a.e)

\* a + b, on the smaller of the two exponents.
RAdd(a, b) ==
    LET e == IF a.e <= b.e THEN a.e ELSE b.e
        an == a.n * Pow10(a.e - e)
        bn == b.n * Pow10(b.e - e)
    IN Norm(an * b.d + bn * a.d, a.d * b.d, e)

RSub(a, b) == RAdd(a, RNeg(b))

RMul(a, b) == Norm(a.n * b.n, a.d * b.d, a.e + b.e)

\* 1 / a, a # 0
RInv(a) == Norm(a.d, a.n, -a.e)

\* a / b, b # 0 (Python raises ZeroDivisionError before dividing by 0.0)
RDiv(a, b) == RMul(a, RInv(b))

\* a ** k for an integer k >= 0
RECURSIVE RPow(_, _)
RPow(a, k) == IF k = 0 THEN One ELSE RMul(a, RPow(a, k - 1))

\* Python's max(a, b) and min(a, b): the first argument unless the second
\* is strictly greater (smaller).
max(a, b) == IF RLt(a, b) THEN b ELSE a
min(a, b) == IF RLt(b, a) THEN b ELSE a

----------------------------------------------------------------------------
(* Outcomes of a call.                                                     *)

Returned(v) == [kind |-> "value", val |-> v]
NaN == [kind |-> "nan"]
\* A float the fraction arithmetic does not write down: base ** exp - 1 for
\* an exponent that is no integer, or a large one.
Inexact(b, x) == [kind |-> "inexact", base |-> b, exp |-> x]
Raised(err) == [kind |-> "raise", err |-> err]

None == [fn |-> "none"]

----------------------------------------------------------------------------
(* The engine.                                                             *)

\* Side = Literal["long", "short"]
Side == {"long", "short"}

\* 365.0 * 24.0 * 3600.0
YearSeconds == FromInt(365 * 24 * 3600)

\* 1e-12
Eps == Sci(1, 12)

\* Variant: the floor is 0.0 instead of 1e-12.
year_fraction_floor_zero(start_ts, end_ts) ==
    max(Zero, RDiv(RSub(end_ts, start_ts), YearSeconds))

year_fraction(start_ts, end_ts) ==
    max(Eps, RDiv(RSub(end_ts, start_ts), YearSeconds))

\* Variant: a zero S yields the not-a-number sentinel instead of raising.
basis_soft(F, S) ==
    IF S.n = 0 THEN NaN
    ELSE Returned(RDiv(RSub(F, S), S))

\* (F - S) / S: float division by zero raises ZeroDivisionError.
basis(F, S) ==
    IF S.n = 0 THEN Raised("ZeroDivisionError")
    ELSE Returned(RDiv(RSub(F, S), S))

\* Variant: the guard is T_years < 0, so that T_years = 0 reaches 1.0 / 0.0.
annualize_basis_strict_guard(b, T_years) ==
    IF RLt(T_years, Zero) THEN NaN
    ELSE IF T_years.n = 0 THEN Raised("ZeroDivisionError")
    ELSE LET base == RAdd(One, b)
             x == RDiv(One, T_years)
         IN IF x.d = 1 /\ x.e = 0 /\ x.n <= MaxExactPower
            THEN Returned(RSub(RPow(base, x.n), One))
            ELSE Inexact(base, x)

\* (1.0 + b) ** (1.0 / T_years) - 1.0, written down exactly when the
\* exponent is an integer of at most MaxExactPower.
annualize_basis(b, T_years) ==
    IF RLeq(T_years, Zero) THEN NaN
    ELSE LET base == RAdd(One, b)
             x == RDiv(One, T_years)
         IN IF x.d = 1 /\ x.e = 0 /\ x.n <= MaxExactPower
            THEN Returned(RSub(RPow(base, x.n), One))
            ELSE Inexact(base, x)

\* list(funding_rates): the items the argument object still yields.
list(obj) == SubSeq(obj.items, obj.pos + 1, Len(obj.items))

\* The argument object after list(funding_rates) has run over it: a list is
\* left as it was, an iterator is left exhausted.
iterated(obj) ==
    IF obj.kind = "iterator" THEN [obj EXCEPT !.pos = Len(obj.items)] ELSE obj

\* Variant: the sum starts at the second item.
RECURSIVE np_sum_skip_first(_)
np_sum_skip_first(xs) ==
    IF Len(xs) <= 1 THEN Zero
    ELSE RAdd(np_sum_skip_first(SubSeq(xs, 1, Len(xs) - 1)), xs[Len(xs)])

\* np.sum over a list of floats: 0.0 for the empty list, else added up
\* from the left.
RECURSIVE np_sum(_)
np_sum(xs) ==
    IF xs = <<>> THEN Zero
    ELSE RAdd(np_sum(SubSeq(xs, 1, Len(xs) - 1)), xs[Len(xs)])

\* Variant: the sign is taken the other way round.
funding_cashflows_sign_flipped(notional_usd, funding_rates, side) ==
    LET sgn == IF side = "long" THEN One ELSE FromInt(-1)
    IN RMul(RMul(notional_usd, sgn), np_sum(funding_rates))

\* funding_rates is the list that list(funding_rates) produced.
funding_cashflows(notional_usd, funding_rates, side) ==
    LET sgn == IF side = "long" THEN FromInt(-1) ELSE One
    IN RMul(RMul(notional_usd, sgn), np_sum(funding_rates))

\* fees_bps_per_leg: float = 0.0
DefaultFeesBps == Zero

\* Variant: fees charged on four legs (entry and exit of both).
cash_and_carry_pnl_four_legs(spot_qty, entry_price, funding_rates, fees_bps_per_leg) ==
    LET notional == RMul(spot_qty, entry_price)
        fees == RMul(RMul(notional, RDiv(fees_bps_per_leg, FromInt(10000))),
                     FromInt(4))
        funding_pnl == funding_cashflows(notional, funding_rates, "short")
    IN RSub(funding_pnl, fees)

cash_and_carry_pnl(spot_qty, entry_price, funding_rates, fees_bps_per_leg) ==
    LET notional == RMul(spot_qty, entry_price)
        fees == RMul(RMul(notional, RDiv(fees_bps_per_leg, FromInt(10000))),
                     FromInt(2))
        funding_pnl == funding_cashflows(notional, funding_rates, "short")
    IN RSub(funding_pnl, fees)

\* Variant: min and max exchanged.
clamp_swapped(x, lo, hi) == min(lo, max(hi, x))

clamp(x, lo, hi) == max(lo, min(hi, x))

\* interest_per_interval: float = 0.0001
DefaultInterest == Dec(1, 4)

\* The literals -0.0005 and 0.0005 in predicted_funding_from_premium.
ClampLo == Dec(-5, 4)
ClampHi == Dec(5, 4)

predicted_funding_from_premium(premium_index, interest_per_interval) ==
    LET adj == clamp(RSub(interest_per_interval, premium_index), ClampLo, ClampHi)
    IN RAdd(premium_index, adj)

----------------------------------------------------------------------------
(* The caller: the arguments it passes.                                    *)

\* Finite sequences over S of length at most k.
SeqsUpTo(S, k) == UNION {[1..m -> S] : m \in 0..k}

RateValues == {Dec(-3, 4), Dec(1, 4)}
RateSeries == SeqsUpTo(RateValues, MaxLen)
Notionals == {FromInt(100), FromInt(-250)}
SideArgs == Side \cup {"LONG", "buy", ""}
Quantities == {FromInt(1), FromInt(-2)}
Prices == {FromInt(100)}
FeesBps == {Dec(25, 1)}
\* Timestamps some microseconds apart, and timestamps days and years apart.
NearTimes == {Zero, Sci(3, 5), Sci(4, 5), Sci(7, 5)}
FarTimes == {Zero, FromInt(86400), FromInt(31536000), FromInt(47304000)}
TimePairs == (NearTimes \X NearTimes) \cup (FarTimes \X FarTimes)
Levels == {FromInt(-2), Zero, One, FromInt(3), Dec(5, 1)}
Bases == {Dec(-15, 1), FromInt(-1), Dec(-5, 1), Zero, Dec(5, 1), One}
Tenors == {FromInt(-1), Dec(-5, 1), Zero, Eps, Norm(1, 3, 0), Dec(5, 1), One,
           FromInt(2)}
Premiums == {Dec(-100, 4), Dec(-5, 4), Dec(-4, 4), Zero, Dec(1, 4), Dec(3, 4),
             Dec(6, 4), Dec(7, 4), Dec(100, 4)}
Interests == {Dec(-2, 4), Zero, Dec(3, 4)}
\* Clamp bounds <<lo, hi>> of funding conventions a caller may want applied.
VenueBounds == {<<Dec(-5, 4), Dec(5, 4)>>, <<Dec(-10, 4), Dec(10, 4)>>,
                <<Dec(-2, 4), Dec(3, 4)>>}

FundingFns == {"funding_cashflows", "cash_and_carry_pnl"}

\* The call before, kept while the calls are funding calls on one object.
Before == IF call.fn \in FundingFns THEN call ELSE None

Init ==
    /\ rates = [kind |-> "list", items |-> <<>>, pos |-> 0]
    /\ call = None
    /\ prev = None

\* The caller builds a funding-rate series: a list, or a one-shot iterator
\* (a generator) over the same items.
NewRates ==
    \E k \in {"list", "iterator"}, xs \in RateSeries :
        /\ rates' = [kind |-> k, items |-> xs, pos |-> 0]
        /\ call' = None
        /\ prev' = None

CallYearFraction ==
    \E t \in TimePairs :
        /\ call' = [fn |-> "year_fraction", start_ts |-> t[1], end_ts |-> t[2],
                    result |-> Returned(year_fraction(t[1], t[2]))]
        /\ prev' = None
        /\ UNCHANGED rates

CallBasis ==
    \E F \in Levels, S \in Levels :
        /\ call' = [fn |-> "basis", F |-> F, S |-> S, result |-> basis(F, S)]
        /\ prev' = None
        /\ UNCHANGED rates

CallAnnualizeBasis ==
    \E b \in Bases, T \in Tenors :
        /\ call' = [fn |-> "annualize_basis", b |-> b, T_years |-> T,
                    result |-> annualize_basis(b, T)]
        /\ prev' = None
        /\ UNCHANGED rates

CallFundingCashflows ==
    \E N \in Notionals, s \in SideArgs :
        LET xs == list(rates)
        IN /\ call' = [fn |-> "funding_cashflows", notional_usd |-> N,
                       side |-> s, funding_rates |-> xs,
                       result |-> Returned(funding_cashflows(N, xs, s))]
           /\ rates' = iterated(rates)
           /\ prev' = Before

CallCashAndCarryPnl ==
    \E q \in Quantities, p \in Prices, given \in BOOLEAN, f \in FeesBps :
        LET xs == list(rates)
            fees == IF given THEN f ELSE DefaultFeesBps
        IN /\ call' = [fn |-> "cash_and_carry_pnl", spot_qty |-> q,
                       entry_price |-> p, funding_rates |-> xs,
                       fees_given |-> given, fees_bps_per_leg |-> fees,
                       result |-> Returned(cash_and_carry_pnl(q, p, xs, fees))]
           /\ rates' = iterated(rates)
           /\ prev' = Before

CallClamp ==
    \E x \in Premiums, b \in VenueBounds :
        /\ call' = [fn |-> "clamp", x |-> x, lo |-> b[1], hi |-> b[2],
                    result |-> Returned(clamp(x, b[1], b[2]))]
        /\ prev' = None
        /\ UNCHANGED rates

\* venue: the clamp bounds of the convention the caller wants applied; the
\* function has no parameter that takes them.
CallPredictedFunding ==
    \E p \in Premiums, given \in BOOLEAN, i \in Interests, b \in VenueBounds :
        LET interest == IF given THEN i ELSE DefaultInterest
        IN /\ call' = [fn |-> "predicted_funding_from_premium",
                       premium_index |-> p, interest_given |-> given,
                       interest_per_interval |-> interest, venue |-> b,
                       result |-> Returned(predicted_funding_from_premium(p, interest))]
           /\ prev' = None
           /\ UNCHANGED rates

\* Funding accounting: the calls that read the funding_rates object.
Next ==
    \/ NewRates
    \/ CallFundingCashflows
    \/ CallCashAndCarryPnl

Spec == Init /\ [][Next]_vars

\* Time, pricing and funding prediction: the calls over scalars alone.
NextScalar ==
    \/ CallYearFraction
    \/ CallBasis
    \/ CallAnnualizeBasis
    \/ CallClamp
    \/ CallPredictedFunding

SpecScalar == Init /\ [][NextScalar]_vars

----------------------------------------------------------------------------
(* Properties.                                                             *)

\* The sum of a series, added up from the right.
RECURSIVE Total(_)
Total(xs) == IF xs = <<>> THEN Zero ELSE RAdd(Head(xs), Total(Tail(xs)))

\* xs read in the order perm gives.
Reordered(xs, perm) == [i \in DOMAIN xs |-> xs[perm[i]]]

IsFundingCall == call.fn = "funding_cashflows"
IsCarryCall == call.fn = "cash_and_carry_pnl"

\* C1: for side long or short, funding_cashflows returns N * sgn * (sum of
\* the rates) with sgn = -1 for long and +1 for short; for a single rate r
\* that is -N*r for long and N*r for short; with N > 0 and a positive sum
\* the long result is negative and the short result is positive.
C1_FundingSign ==
    (IsFundingCall /\ call.side \in Side) =>
        LET N == call.notional_usd
            xs == call.funding_rates
            r == call.result.val
        IN /\ call.result.kind = "value"
           /\ call.side = "long" => REq(r, RNeg(RMul(N, Total(xs))))
           /\ call.side = "short" => REq(r, RMul(N, Total(xs)))
           /\ (Len(xs) = 1 /\ call.side = "long") => REq(r, RNeg(RMul(N, xs[1])))
           /\ (Len(xs) = 1 /\ call.side = "short") => REq(r, RMul(N, xs[1]))
           /\ (RLt(Zero, N) /\ RLt(Zero, Total(xs))) =>
                  /\ call.side = "long" => RLt(r, Zero)
                  /\ call.side = "short" => RLt(Zero, r)

\* C1 witness: a long position of positive notional over several rates of
\* positive sum has paid.
C1_Witness ==
    /\ IsFundingCall
    /\ call.side = "long"
    /\ Len(call.funding_rates) >= 2
    /\ RLt(Zero, call.notional_usd)
    /\ RLt(Zero, Total(call.funding_rates))
    /\ RLt(call.result.val, Zero)

\* C3: cash_and_carry_pnl returns the short-side funding cashflow on
\* notional = spot_qty * entry_price minus notional * fees_bps_per_leg * 2
\* / 10000 (factor 2, not 4); without a fees argument it is the short-side
\* funding cashflow.
C3_CashAndCarry ==
    IsCarryCall =>
        LET notional == RMul(call.spot_qty, call.entry_price)
            funding == funding_cashflows(notional, call.funding_rates, "short")
            perLeg == RDiv(RMul(notional, call.fees_bps_per_leg), FromInt(10000))
            r == call.result.val
        IN /\ call.result.kind = "value"
           /\ REq(r, RSub(funding, RAdd(perLeg, perLeg)))
           /\ perLeg.n # 0 => ~REq(r, RSub(funding, RMul(FromInt(4), perLeg)))
           /\ ~call.fees_given => REq(r, funding)

\* C3 witness: a carry trade with a fee and funding received.
C3_Witness ==
    /\ IsCarryCall
    /\ call.fees_given
    /\ call.fees_bps_per_leg.n # 0
    /\ Len(call.funding_rates) >= 2
    /\ call.result.kind = "value"

\* C7: funding_cashflows, and cash_and_carry_pnl with it, return the same
\* result for every reordering of the rate series.
C7_PermutationInvariant ==
    /\ IsFundingCall =>
           \A perm \in Permutations(DOMAIN call.funding_rates) :
               REq(funding_cashflows(call.notional_usd,
                                     Reordered(call.funding_rates, perm),
                                     call.side),
                   call.result.val)
    /\ IsCarryCall =>
           \A perm \in Permutations(DOMAIN call.funding_rates) :
               REq(cash_and_carry_pnl(call.spot_qty, call.entry_price,
                                      Reordered(call.funding_rates, perm),
                                      call.fees_bps_per_leg),
                   call.result.val)

\* C7 witness: a funding call over a series whose first and last rates differ.
C7_Witness ==
    /\ IsFundingCall
    /\ Len(call.funding_rates) >= 2
    /\ call.funding_rates[1] # call.funding_rates[Len(call.funding_rates)]
    /\ call.result.kind = "value"

\* C8: a call of funding_cashflows with a side other than long and short
\* is rejected, not evaluated as one of the two sides.
C8_SideRejected ==
    (IsFundingCall /\ call.side \notin Side) => call.result.kind = "raise"

\* C10: two successive calls of funding_cashflows, or of cash_and_carry_pnl,
\* with the same arguments and the same funding_rates object return equal
\* results, whatever kind of iterable the object is.
C10_RepeatableCalls ==
    /\ (IsFundingCall /\ prev.fn = call.fn
          /\ prev.notional_usd = call.notional_usd /\ prev.side = call.side)
           => prev.result = call.result
    /\ (IsCarryCall /\ prev.fn = call.fn
          /\ prev.spot_qty = call.spot_qty /\ prev.entry_price = call.entry_price
          /\ prev.fees_bps_per_leg = call.fees_bps_per_leg)
           => prev.result = call.result

IsPredictedCall == call.fn = "predicted_funding_from_premium"

\* C2: predicted_funding_from_premium(p, i) returns
\* p + max(-0.0005, min(0.0005, i - p)): i when |i - p| <= 0.0005,
\* p - 0.0005 when i - p < -0.0005, p + 0.0005 when i - p > 0.0005; p = 0.01
\* with the default i = 0.0001 gives 0.0095.
C2_PredictedFunding ==
    IsPredictedCall =>
        LET p == call.premium_index
            i == call.interest_per_interval
            gap == RSub(i, p)
            r == call.result.val
        IN /\ call.result.kind = "value"
           /\ REq(r, RAdd(p, max(Dec(-5, 4), min(Dec(5, 4), gap))))
           /\ (RLeq(Dec(-5, 4), gap) /\ RLeq(gap, Dec(5, 4))) => REq(r, i)
           /\ RLt(gap, Dec(-5, 4)) => REq(r, RSub(p, Dec(5, 4)))
           /\ RLt(Dec(5, 4), gap) => REq(r, RAdd(p, Dec(5, 4)))
           /\ (REq(p, Dec(1, 2)) /\ ~call.interest_given) => REq(r, Dec(95, 4))

\* C2 witness: the premium index 0.01 with the default interest gave 0.0095.
C2_Witness ==
    /\ IsPredictedCall
    /\ REq(call.premium_index, Dec(1, 2))
    /\ ~call.interest_given
    /\ REq(call.result.val, Dec(95, 4))

\* C4: basis(F, S) with S = 0 ends in a division error for every F and
\* returns nothing, neither a number nor not-a-number; with S # 0 it returns
\* (F - S) / S.
C4_BasisDivision ==
    call.fn = "basis" =>
        /\ call.S.n = 0 => call.result = Raised("ZeroDivisionError")
        /\ call.S.n # 0 =>
               /\ call.result.kind = "value"
               /\ REq(RMul(call.result.val, call.S), RSub(call.F, call.S))

\* C4 witness: basis of a nonzero F over S = 0 raised.
C4_Witness ==
    /\ call.fn = "basis"
    /\ call.S.n = 0
    /\ call.F.n # 0
    /\ call.result.kind = "raise"

\* C5: annualize_basis(b, T_years) returns not-a-number and raises nothing
\* whenever T_years <= 0; it returns another value only when T_years > 0,
\* and that value is (1 + b) ** (1 / T_years) - 1 (so b itself for
\* T_years = 1).
C5_AnnualizeSentinel ==
    call.fn = "annualize_basis" =>
        LET b == call.b
            T == call.T_years
        IN /\ RLeq(T, Zero) => call.result = NaN
           /\ call.result.kind # "nan" => RLt(Zero, T)
           /\ call.result.kind = "inexact" =>
                  /\ REq(call.result.base, RAdd(One, b))
                  /\ REq(RMul(call.result.exp, T), One)
           /\ call.result.kind = "value" =>
                  \E k \in 1..T.d :
                      /\ REq(RMul(FromInt(k), T), One)
                      /\ REq(RAdd(call.result.val, One), RPow(RAdd(One, b), k))
           /\ (REq(T, One) /\ call.result.kind = "value") =>
                  REq(call.result.val, b)

\* C5 witness: a negative tenor gave not-a-number for a nonzero basis.
C5_Witness ==
    /\ call.fn = "annualize_basis"
    /\ RLt(call.T_years, Zero)
    /\ call.b.n # 0
    /\ call.result = NaN

\* C6: year_fraction raises nothing and returns
\* max(1e-12, (end - start) / (365 * 86400)) for every pair of timestamps,
\* end = start and end < start included; the result is positive and at
\* least 1e-12, and annualize_basis never takes it for a tenor <= 0.
C6_YearFractionFloor ==
    call.fn = "year_fraction" =>
        LET x == RDiv(RSub(call.end_ts, call.start_ts), FromInt(365 * 86400))
            r == call.result.val
        IN /\ call.result.kind = "value"
           /\ RLeq(x, Sci(1, 12)) => REq(r, Sci(1, 12))
           /\ RLt(Sci(1, 12), x) => REq(r, x)
           /\ RLt(Zero, r)
           /\ RLeq(Sci(1, 12), r)
           /\ \A b \in Bases : annualize_basis(b, r).kind # "nan"

\* C6 witness: an inverted interval gave the floor.
C6_Witness ==
    /\ call.fn = "year_fraction"
    /\ RLt(call.end_ts, call.start_ts)
    /\ REq(call.result.val, Sci(1, 12))

\* C9: the clamp bounds are the caller's to choose: for bounds lo <= hi of
\* the caller's convention the function returns
\* premium_index + clamp(interest_per_interval - premium_index, lo, hi).
C9_ConfigurableBounds ==
    (IsPredictedCall /\ RLeq(call.venue[1], call.venue[2])) =>
        LET p == call.premium_index
            i == call.interest_per_interval
        IN REq(call.result.val,
               RAdd(p, max(call.venue[1], min(call.venue[2], RSub(i, p)))))

====
